---- MODULE Spec2Model ----
(***************************************************************************)
(* Model of src/utils.py: distribute_videos_to_workers splits every video  *)
(* of a folder into an n_parts x m_parts grid of clips (one pool task per  *)
(* cell), shuffles the clips, deals them round-robin to the workers and    *)
(* copies them under annotation/<worker>/<part>/.                          *)
(*                                                                         *)
(* The file system is part of the state: the annotation tree, the temp     *)
(* folder and the videos folder.  A part name f"{video_name}_part_{i+1}_   *)
(* {j+1}" is the record [video, row, col]: the text is an injective image  *)
(* of (video_name, i+1, j+1), since the two trailing decimal fields are    *)
(* delimited by "_".  What is NOT injective is video_name, the file name   *)
(* with its extension split off, and that step is modelled (SplitExt).     *)
(***************************************************************************)
EXTENDS Integers, Sequences, FiniteSets, TLC

\* ---------------------------------------------------------------- bounds
MaxWorkers == 2
MaxCells == 3
GeomCells == 4
MaxDim == 3
NumCores == 2
MaxFrames == 3
LiveCells == 2

WorkerNames == {"w1", "w2"}
\* a directory: absent, or present with a set of items
NoDir == [exists |-> FALSE, items |-> {}]
Dir(items) == [exists |-> TRUE, items |-> items]

\* ---------------------------------------------------------------- inputs
\* A directory entry of the videos folder: name = stem "." ext, with the
\* metadata cv2 reports for it.
VideoA == [stem |-> "a", ext |-> "mp4", width |-> 3, height |-> 2]
VideoA2 == [stem |-> "a", ext |-> "avi", width |-> 2, height |-> 3]
VideoB == [stem |-> "b", ext |-> "MP4", width |-> 1, height |-> 1]
Notes == [stem |-> "notes", ext |-> "txt", width |-> 0, height |-> 0]

Folders ==
    { [exists |-> FALSE, files |-> {}] } \cup
    { [exists |-> TRUE, files |-> fs] :
        fs \in { {}, {VideoA}, {VideoA, Notes}, {VideoA, VideoA2}, {VideoA, VideoB} } }

WorkerLists == UNION { [1..k -> WorkerNames] : k \in 0..MaxWorkers }

\* grids (n_parts, m_parts), negative and zero counts included, of at most c cells
GridLo == 0 - 1
GridsUpTo(c) == { g \in (GridLo..c) \X (GridLo..c) :
                    (g[1] > 0 /\ g[2] > 0) => g[1] * g[2] <= c }
Grids == GridsUpTo(MaxCells)

CallArgs == [videos_folder : Folders, workers : WorkerLists,
             n_parts : GridLo..MaxCells, m_parts : GridLo..MaxCells]

\* ---------------------------------------------------------------- helpers
Range(s) == { s[i] : i \in DOMAIN s }

\* Python's a // b for b # 0 (floor division).
FloorDiv(a, b) == IF b > 0 THEN a \div b ELSE (0 - a) \div (0 - b)

\* str.lower() on the extensions that occur.
Lower(e) == IF e = "MP4" THEN "mp4" ELSE IF e = "AVI" THEN "avi" ELSE e

\* f.lower().endswith(('.mp4', '.avi', '.mkv'))
IsVideoFile(f) == Lower(f.ext) \in {"mp4", "avi", "mkv"}

\* os.path.splitext(video_file)[0]
SplitExt(f) == f.stem

\* f"{video_name}_part_{i+1}_{j+1}"
PartName(video_name, i, j) == [video |-> video_name, row |-> i + 1, col |-> j + 1]

VARIABLES
    calls,          \* calls of distribute_videos_to_workers still to be made
    run,            \* number of calls made so far
    pc,             \* position of the orchestrating flow
    error,          \* exception that ended the current call ("" = none)
    videos_folder, workers, n_parts, m_parts,   \* arguments of the current call
    annotation,     \* worker -> directory of part directories [name, files]
    temp,           \* the temp folder: directory of files [fname, data]
    video_files,    \* videos not yet processed, in listing order
    video_file,     \* the video being processed
    tasks,          \* the futures of the current video, in submission order
    collected,      \* futures as_completed has yielded
    part_videos,    \* list of (part_name, part_path)
    worker_distribution,  \* worker -> list of (part_name, part_path)
    order,          \* keys of worker_distribution in insertion order
    pub,            \* position of the copy loop: index into PublishList
    printed,        \* completion messages printed by the current call
    removed,        \* log: << worker, entry >> removed by this call's clearing
    submitted,      \* log: the executor.submit calls of this call
    \* one activation of process_video_part, step by step
    xin,            \* its arguments and what the source file can deliver
    xpc,            \* its position
    frame_num,      \* the loop variable of line 34
    cap,            \* the VideoCapture: state, position, read() calls made
    out,            \* the VideoWriter: state, frames written
    result          \* what the activation returned ("" = nothing yet)

extraction == << xin, xpc, frame_num, cap, out, result >>

vars == << calls, run, pc, error, videos_folder, workers, n_parts, m_parts,
           annotation, temp, video_files, video_file, tasks, collected,
           part_videos, worker_distribution, order, pub, printed, removed,
           submitted, extraction >>

callArgs == << videos_folder, workers, n_parts, m_parts >>
logs == << removed, submitted >>
perVideo == << video_file, tasks, collected, part_videos, worker_distribution,
               order, pub >>

NoVideo == [stem |-> "", ext |-> "", width |-> 0, height |-> 0]

\* ------------------------------------------------------- pure operators
RECURSIVE Perms(_)
Perms(S) == IF S = {} THEN { <<>> }
            ELSE UNION { { <<x>> \o p : p \in Perms(S \ {x}) } : x \in S }

\* every outcome random.shuffle can give for list s
Shuffles(s) == { [i \in 1..Len(s) |-> s[p[i]]] : p \in Perms(1..Len(s)) }

\* for i in range(n) ... for j in range(m): the pairs (i, j) in loop order
RECURSIVE RowCells(_, _, _)
RowCells(i, j, m) == IF j >= m THEN <<>> ELSE << <<i, j>> >> \o RowCells(i, j + 1, m)

RECURSIVE GridCells(_, _, _)
GridCells(i, n, m) == IF i >= n THEN <<>> ELSE RowCells(i, 0, m) \o GridCells(i + 1, n, m)

\* a cell width rounded up instead of down
GridWidthCeil(f, m) == (f.width + m - 1) \div m

\* grid_width = width // m_parts, grid_height = height // n_parts
GridWidth(f, m) == FloorDiv(f.width, m)
GridHeight(f, n) == FloorDiv(f.height, n)

\* os.path.join(temp_folder, f"{part_name}.mp4")
PartPath(part_name) == [folder |-> "temp", file |-> part_name]

\* os.path.basename(part_path)
BaseName(path) == path.file

\* offsets with the row and column indices exchanged
SubmitArgsTransposed(f, n, m, i, j) ==
    [ name |-> PartName(SplitExt(f), i, j),
      x |-> i * GridWidth(f, m), y |-> j * GridHeight(f, n),
      w |-> GridWidth(f, m), h |-> GridHeight(f, n),
      state |-> "pending" ]

\* the argument tuple executor.submit gets for cell (i, j) of video f
SubmitArgs(f, n, m, i, j) ==
    [ name |-> PartName(SplitExt(f), i, j),
      x |-> j * GridWidth(f, m), y |-> i * GridHeight(f, n),
      w |-> GridWidth(f, m), h |-> GridHeight(f, n),
      state |-> "pending" ]

\* the futures of one video, in submission order
SubmitAll(f, n, m) ==
    LET cells == GridCells(0, n, m)
    IN  [ k \in 1..Len(cells) |-> SubmitArgs(f, n, m, cells[k][1], cells[k][2]) ]

Resolved(ts) == { k \in DOMAIN ts : ts[k].state \in {"ok", "failed"} }
Running(ts) == { k \in DOMAIN ts : ts[k].state = "running" }
Pending(ts) == { k \in DOMAIN ts : ts[k].state = "pending" }

\* the as_completed loop has yielded every future
LoopExhausted(ts, got) == got = DOMAIN ts

\* a shutdown that does not wait
ShutdownNoWait(ts) == TRUE

\* executor.shutdown(wait=True) returns: no work item is queued or running
ShutdownReturns(ts) == Resolved(ts) = DOMAIN ts

\* a fan-in that goes on with the first result
FanInFirst(ts, got) == got # {} \/ ts = <<>>

\* lines 89-98: the with block is left normally once the loop has yielded every
\* future and the pool has shut down
FanInDone(ts, got) == LoopExhausted(ts, got) /\ ShutdownReturns(ts)

\* keys of {worker: [] for worker in workers}, in insertion order
RECURSIVE DictKeys(_)
DictKeys(ws) ==
    IF ws = <<>> THEN <<>>
    ELSE LET rest == DictKeys(SubSeq(ws, 1, Len(ws) - 1))
             last == ws[Len(ws)]
         IN  IF last \in Range(rest) THEN rest ELSE Append(rest, last)

\* part_videos.pop(): the last element leaves the list
PopItem(parts) == parts[Len(parts)]
PopRest(parts) == SubSeq(parts, 1, Len(parts) - 1)

\* a pass that appends every popped part to the first worker's list
RECURSIVE ForWorkersFirst(_, _, _, _)
ForWorkersFirst(ws, i, parts, dist) ==
    IF i > Len(ws) THEN [parts |-> parts, dist |-> dist]
    ELSE IF parts # <<>>
         THEN ForWorkersFirst(ws, i + 1, PopRest(parts),
                              [dist EXCEPT ![ws[1]] = Append(@, PopItem(parts))])
         ELSE ForWorkersFirst(ws, i + 1, parts, dist)

\* one pass of "for worker in workers: if part_videos: pop, append",
\* from position i of the worker list
RECURSIVE ForWorkers(_, _, _, _)
ForWorkers(ws, i, parts, dist) ==
    IF i > Len(ws) THEN [parts |-> parts, dist |-> dist]
    ELSE IF parts # <<>>
         THEN ForWorkers(ws, i + 1, PopRest(parts),
                         [dist EXCEPT ![ws[i]] = Append(@, PopItem(parts))])
         ELSE ForWorkers(ws, i + 1, parts, dist)

\* worker_distribution.items() flattened: the copies in the order made
RECURSIVE PublishList(_, _)
PublishList(keys, dist) ==
    IF keys = <<>> THEN <<>>
    ELSE [ k \in 1..Len(dist[Head(keys)]) |-> << Head(keys), dist[Head(keys)][k] >> ]
         \o PublishList(Tail(keys), dist)

\* a file written to a folder under a name replaces the file of that name
WriteFile(dir, fname, data) ==
    { f \in dir : f.fname # fname } \cup { [fname |-> fname, data |-> data] }

\* os.makedirs(worker_folder, exist_ok=True) in worker directory wd
MakePartDir(wd, name) ==
    IF \E e \in wd : e.name = name THEN wd ELSE wd \cup { [name |-> name, files |-> {}] }

\* shutil.copy of file src into part directory name of worker directory wd
CopyInto(wd, name, src) ==
    { IF e.name = name THEN [e EXCEPT !.files = WriteFile(@, src.fname, src.data)] ELSE e
      : e \in wd }

\* what the tasks of the current call and video write
Origin == [run |-> run, file |-> << video_file.stem, video_file.ext >>]

\* ---------------------------------------------------------------- Init
NoTask == [source |-> NoVideo, task |-> [name |-> "", x |-> 0, y |-> 0, w |-> 0, h |-> 0],
           total_frames |-> 0, readable |-> 0]

\* no activation of process_video_part is followed step by step
TaskIdle ==
    /\ xin = NoTask
    /\ xpc = "idle"
    /\ frame_num = 0
    /\ cap = [state |-> "none", pos |-> 0, reads |-> 0]
    /\ out = [state |-> "none", frames |-> <<>>]
    /\ result = ""

\* no call has been made yet
FlowIdle(callSeqs) ==
    /\ calls \in callSeqs
    /\ run = 0
    /\ pc = "idle"
    /\ error = ""
    /\ videos_folder = [exists |-> FALSE, files |-> {}]
    /\ workers = <<>>
    /\ n_parts = 1
    /\ m_parts = 1
    /\ annotation = [w \in WorkerNames |-> NoDir]
    /\ temp = NoDir
    /\ video_files = <<>>
    /\ video_file = NoVideo
    /\ tasks = <<>>
    /\ collected = {}
    /\ part_videos = <<>>
    /\ worker_distribution = [w \in {} |-> <<>>]
    /\ order = <<>>
    /\ pub = 1
    /\ printed = 0
    /\ removed = {}
    /\ submitted = {}

InitWith(callSeqs) == FlowIdle(callSeqs) /\ TaskIdle

\* ---------------------------------------------------------------- actions
Raise(kind) == pc' = "error" /\ error' = kind

\* The caller calls distribute_videos_to_workers with the next arguments.
Call ==
    /\ pc \in {"idle", "done", "error"}
    /\ calls # <<>>
    /\ calls' = Tail(calls)
    /\ run' = run + 1
    /\ videos_folder' = Head(calls).videos_folder
    /\ workers' = Head(calls).workers
    /\ n_parts' = Head(calls).n_parts
    /\ m_parts' = Head(calls).m_parts
    /\ pc' = "clear"
    /\ error' = ""
    /\ video_files' = <<>>
    /\ video_file' = NoVideo
    /\ tasks' = <<>>
    /\ collected' = {}
    /\ part_videos' = <<>>
    /\ worker_distribution' = [w \in {} |-> <<>>]
    /\ order' = <<>>
    /\ pub' = 1
    /\ printed' = 0
    /\ removed' = {}
    /\ submitted' = {}
    /\ UNCHANGED << annotation, temp >>
    /\ UNCHANGED extraction

\* the directories made sure of, their contents kept
KeptStorage(ann, ws) ==
    [ w \in WorkerNames |-> IF w \in Range(ws) THEN Dir(ann[w].items) ELSE ann[w] ]

\* every worker directory of the tree emptied, listed or not
ClearedAll(ann, ws) ==
    [ w \in WorkerNames |-> IF w \in Range(ws) \/ ann[w].exists THEN Dir({}) ELSE ann[w] ]

\* lines 58-65: every listed worker's directory exists and is emptied (the
\* items of a worker directory are part directories, which rmtree removes)
ClearedStorage(ann, ws) ==
    [ w \in WorkerNames |-> IF w \in Range(ws) THEN Dir({}) ELSE ann[w] ]

ClearWorkers ==
    /\ pc = "clear"
    /\ annotation' = ClearedStorage(annotation, workers)
    /\ removed' = UNION { { << w, e >> : e \in
                               annotation[w].items \
                                   ClearedStorage(annotation, workers)[w].items }
                           : w \in WorkerNames }
    /\ pc' = "check"
    /\ UNCHANGED << calls, run, error, callArgs, temp, video_files, perVideo, printed,
                    submitted >>
    /\ UNCHANGED extraction

\* lines 67-70: the folder check and the listing, in any directory order
CheckFolder ==
    /\ pc = "check"
    /\ IF ~videos_folder.exists
       THEN /\ Raise("ValueError")
            /\ UNCHANGED video_files
       ELSE /\ video_files' \in Perms({ f \in videos_folder.files : IsVideoFile(f) })
            /\ pc' = "video"
            /\ UNCHANGED error
    /\ UNCHANGED << calls, run, callArgs, annotation, temp, perVideo, printed, logs >>
    /\ UNCHANGED extraction

\* a loop that ends with one video still to do
ExhaustedEarly(files) == Len(files) <= 1

\* line 72: the for loop over video_files has no file left
Exhausted(files) == files = <<>>

\* lines 72-86 (loop head, probe, cell size, temp folder) and line 119
NextVideo ==
    /\ pc = "video"
    /\ IF Exhausted(video_files)
       THEN /\ pc' = "done"
            /\ printed' = printed + 1
            /\ UNCHANGED << error, temp, video_files, video_file, part_videos >>
       ELSE /\ video_file' = Head(video_files)
            /\ video_files' = Tail(video_files)
            /\ UNCHANGED printed
            /\ IF m_parts = 0 \/ n_parts = 0
               THEN /\ Raise("ZeroDivisionError")
                    /\ UNCHANGED << temp, part_videos >>
               ELSE /\ temp' = (IF temp.exists THEN temp ELSE Dir({}))
                    /\ part_videos' = <<>>
                    /\ pc' = "submit"
                    /\ UNCHANGED error
    /\ UNCHANGED << calls, run, callArgs, annotation, tasks, collected,
                    worker_distribution, order, pub, logs >>
    /\ UNCHANGED extraction

\* lines 89-96: one future per cell, all submitted before the first is awaited
Submit ==
    /\ pc = "submit"
    /\ tasks' = SubmitAll(video_file, n_parts, m_parts)
    /\ collected' = {}
    /\ submitted' = submitted \cup
         { [file |-> << video_file.stem, video_file.ext >>,
            row |-> GridCells(0, n_parts, m_parts)[k][1],
            col |-> GridCells(0, n_parts, m_parts)[k][2],
            name |-> SubmitAll(video_file, n_parts, m_parts)[k].name]
           : k \in DOMAIN SubmitAll(video_file, n_parts, m_parts) }
    /\ pc' = "collect"
    /\ UNCHANGED << calls, run, error, callArgs, annotation, temp, video_files,
                    video_file, part_videos, worker_distribution, order, pub, printed,
                    removed >>
    /\ UNCHANGED extraction

\* A pool process takes the oldest queued work item (lines 27-31: the writer
\* opens the part's file in the temp folder, replacing a file of that name).
\* At most cpu_count() items run at a time (line 88).
StartTask(k) ==
    /\ pc \in {"collect", "drain"}
    /\ k \in Pending(tasks)
    /\ \A j \in Pending(tasks) : k <= j
    /\ Cardinality(Running(tasks)) < NumCores
    /\ tasks' = [tasks EXCEPT ![k].state = "running"]
    /\ temp' = Dir(WriteFile(temp.items, BaseName(PartPath(tasks[k].name)), Origin))
    /\ UNCHANGED << calls, run, pc, error, callArgs, annotation, video_files,
                    video_file, collected, part_videos, worker_distribution, order,
                    pub, printed, logs >>
    /\ UNCHANGED extraction

\* process_video_part returns its path, or raises
FinishTask(k) ==
    /\ pc \in {"collect", "drain"}
    /\ k \in Running(tasks)
    /\ \E outcome \in {"ok", "failed"} : tasks' = [tasks EXCEPT ![k].state = outcome]
    /\ UNCHANGED << calls, run, pc, error, callArgs, annotation, temp, video_files,
                    video_file, collected, part_videos, worker_distribution, order,
                    pub, printed, logs >>
    /\ UNCHANGED extraction

\* lines 97-98: as_completed yields a finished future; result() returns the
\* path or re-raises the task's exception, which leaves the with block
Collect ==
    /\ pc = "collect"
    /\ IF FanInDone(tasks, collected)
       THEN /\ pc' = "shuffle"
            /\ UNCHANGED << collected, part_videos >>
       ELSE \E k \in Resolved(tasks) \ collected :
              /\ collected' = collected \cup {k}
              /\ IF tasks[k].state = "ok"
                 THEN /\ part_videos' =
                           Append(part_videos, << tasks[k].name, PartPath(tasks[k].name) >>)
                      /\ UNCHANGED pc
                 ELSE /\ pc' = "drain"
                      /\ UNCHANGED part_videos
    /\ UNCHANGED << calls, run, error, callArgs, annotation, temp, video_files,
                    video_file, tasks, worker_distribution, order, pub, printed, logs >>
    /\ UNCHANGED extraction

\* line 89, __exit__ with the exception pending: shutdown(wait=True), then
\* the task's exception leaves the function ("ExtractError" stands for it,
\* whatever its Python type)
Drain ==
    /\ pc = "drain"
    /\ ShutdownReturns(tasks)
    /\ Raise("ExtractError")
    /\ UNCHANGED << calls, run, callArgs, annotation, temp, video_files, perVideo, printed, logs >>
    /\ UNCHANGED extraction

\* lines 101-102
Shuffle ==
    /\ pc = "shuffle"
    /\ worker_distribution' = [ w \in Range(workers) |-> <<>> ]
    /\ order' = DictKeys(workers)
    /\ part_videos' \in Shuffles(part_videos)
    /\ pc' = "alloc"
    /\ UNCHANGED << calls, run, error, callArgs, annotation, temp, video_files,
                    video_file, tasks, collected, pub, printed, logs >>
    /\ UNCHANGED extraction

\* lines 103-107: the while test and one pass of the for loop
AllocCycle ==
    /\ pc = "alloc"
    /\ IF part_videos = <<>>
       THEN /\ pc' = "publish"
            /\ pub' = 1
            /\ UNCHANGED << part_videos, worker_distribution >>
       ELSE LET r == ForWorkers(workers, 1, part_videos, worker_distribution)
            IN  /\ part_videos' = r.parts
                /\ worker_distribution' = r.dist
                /\ UNCHANGED << pc, pub >>
    /\ UNCHANGED << calls, run, error, callArgs, annotation, temp, video_files,
                    video_file, tasks, collected, order, printed, logs >>
    /\ UNCHANGED extraction

\* lines 110-114: the next copy; shutil.copy raises when the copy fails
Publish ==
    /\ pc = "publish"
    /\ LET todo == PublishList(order, worker_distribution)
       IN  IF pub > Len(todo)
           THEN /\ pc' = "cleanup"
                /\ UNCHANGED << error, annotation, pub >>
           ELSE LET worker == todo[pub][1]
                    part_name == todo[pub][2][1]
                    part_path == todo[pub][2][2]
                    made == MakePartDir(annotation[worker].items, part_name)
                    src == { f \in temp.items : f.fname = BaseName(part_path) }
                IN  \E copied \in { c \in BOOLEAN : c => src # {} } :
                      IF copied
                      THEN /\ annotation' = [annotation EXCEPT ![worker] =
                                  Dir(CopyInto(made, part_name, CHOOSE f \in src : TRUE))]
                           /\ pub' = pub + 1
                           /\ UNCHANGED << pc, error >>
                      ELSE /\ annotation' = [annotation EXCEPT ![worker] = Dir(made)]
                           /\ Raise("OSError")
                           /\ UNCHANGED pub
    /\ UNCHANGED << calls, run, callArgs, temp, video_files, video_file, tasks,
                    collected, part_videos, worker_distribution, order, printed, logs >>
    /\ UNCHANGED extraction

\* a removal that leaves the tree where it is
RmTreeSkipped(d) == d

\* shutil.rmtree(temp_folder, ignore_errors=True): the folder and all in it go
RmTree(d) == NoDir

\* lines 116-117
Cleanup ==
    /\ pc = "cleanup"
    /\ temp' = RmTree(temp)
    /\ pc' = "video"
    /\ UNCHANGED << calls, run, error, callArgs, annotation, video_files, perVideo, printed, logs >>
    /\ UNCHANGED extraction

\* ------------------------------------------ process_video_part, step by step
\* the frame the source delivers at position k (0-based), with the source's size
SourceFrame(src, k) == [index |-> k, width |-> src.width, height |-> src.height]

Least(a, b) == IF a < b THEN a ELSE b

\* frame[y_start:y_start + grid_height, x_start:x_start + grid_width] for
\* offsets >= 0: a slice ends where the frame ends
Crop(frame, t) ==
    [ index |-> frame.index,
      cols |-> t.x .. (Least(t.x + t.w, frame.width) - 1),
      rows |-> t.y .. (Least(t.y + t.h, frame.height) - 1) ]

\* a loop that runs once more than range(total_frames)
KeepReadingOneMore(num, total_frames) == num <= total_frames

\* line 34: range(total_frames) has a next value
KeepReading(num, total_frames) == num < total_frames

\* lines 25-32: the writer and the capture are made, the capture set to frame 0
XOpen ==
    /\ xpc = "start"
    /\ out' = [state |-> "open", frames |-> <<>>]
    /\ cap' = [state |-> "open", pos |-> 0, reads |-> 0]
    /\ frame_num' = 0
    /\ xpc' = "loop"
    /\ UNCHANGED << xin, result >>
    /\ UNCHANGED << calls, run, pc, error, callArgs, annotation, temp, video_files,
                    perVideo, printed, logs >>

\* lines 34-39: the loop test and one pass of the body.  cap.read() gives the
\* next frame while the source has one; read() or write() may raise, and then
\* the exception leaves the function at once (nothing encloses the loop)
XFrame ==
    /\ xpc = "loop"
    /\ \E fault \in {"none", "read", "write"} :
          IF ~KeepReading(frame_num, xin.total_frames)
          THEN /\ fault = "none"
               /\ xpc' = "release"
               /\ UNCHANGED << frame_num, cap, out, result >>
          ELSE IF fault = "read"
          THEN /\ cap' = [cap EXCEPT !.reads = @ + 1]
               /\ xpc' = "raised"
               /\ result' = "cv2.error"
               /\ UNCHANGED << frame_num, out >>
          ELSE IF cap.pos >= xin.readable
          THEN /\ fault = "none"
               /\ cap' = [cap EXCEPT !.reads = @ + 1]
               /\ xpc' = "release"
               /\ UNCHANGED << frame_num, out, result >>
          ELSE IF fault = "write"
          THEN /\ cap' = [cap EXCEPT !.reads = @ + 1, !.pos = @ + 1]
               /\ xpc' = "raised"
               /\ result' = "cv2.error"
               /\ UNCHANGED << frame_num, out >>
          ELSE /\ cap' = [cap EXCEPT !.reads = @ + 1, !.pos = @ + 1]
               /\ out' = [out EXCEPT !.frames =
                              Append(@, Crop(SourceFrame(xin.source, cap.pos), xin.task))]
               /\ frame_num' = frame_num + 1
               /\ UNCHANGED << xpc, result >>
    /\ UNCHANGED xin
    /\ UNCHANGED << calls, run, pc, error, callArgs, annotation, temp, video_files,
                    perVideo, printed, logs >>

\* lines 41-43
XRelease ==
    /\ xpc = "release"
    /\ out' = [out EXCEPT !.state = "released"]
    /\ cap' = [cap EXCEPT !.state = "released"]
    /\ result' = PartPath(xin.task.name)
    /\ xpc' = "returned"
    /\ UNCHANGED << xin, frame_num >>
    /\ UNCHANGED << calls, run, pc, error, callArgs, annotation, temp, video_files,
                    perVideo, printed, logs >>

ExtractNext ==
    \/ XOpen
    \/ XFrame
    \/ XRelease

Next ==
    \/ Call
    \/ ClearWorkers
    \/ CheckFolder
    \/ NextVideo
    \/ Submit
    \/ \E k \in DOMAIN tasks : StartTask(k)
    \/ \E k \in DOMAIN tasks : FinishTask(k)
    \/ Collect
    \/ Drain
    \/ Shuffle
    \/ AllocCycle
    \/ Publish
    \/ Cleanup

\* In a single call against an empty annotation tree the worker names are
\* interchangeable: the first name of the list is "w1", the next new one "w2".
FirstNames(ws) == DictKeys(ws) \in { <<>>, << "w1" >>, << "w1", "w2" >> }

\* every single call with arguments within the bounds
OneCall ==
    { << c >> : c \in { a \in CallArgs : /\ << a.n_parts, a.m_parts >> \in Grids
                                        /\ FirstNames(a.workers) } }

Init == InitWith(OneCall)

Spec == Init /\ [][Next]_vars

FairSpec == Spec /\ WF_vars(Next)

\* every single call with a grid of at most LiveCells cells, its steps taken
\* as long as one can be
LiveCalls ==
    { << c >> : c \in { a \in CallArgs : /\ << a.n_parts, a.m_parts >> \in GridsUpTo(LiveCells)
                                        /\ FirstNames(a.workers) } }

CompletionSpec == InitWith(LiveCalls) /\ [][Next]_vars /\ WF_vars(Next)

\* two calls in a row against the same annotation tree
RerunArgs ==
    { a \in CallArgs :
        /\ a.videos_folder \in { [exists |-> FALSE, files |-> {}],
                                 [exists |-> TRUE, files |-> {VideoA}],
                                 [exists |-> TRUE, files |-> {VideoA, VideoB}] }
        /\ << a.n_parts, a.m_parts >> \in { <<1, 1>>, <<1, 2>>, <<2, 1>> } }
TwoCalls == { << a, b >> : a \in RerunArgs, b \in RerunArgs }

RerunSpec == InitWith(TwoCalls) /\ [][Next]_vars

\* one activation of process_video_part for a cell of VideoA cut into 1 row and
\* 2 columns: every total_frames up to MaxFrames, every number of frames the
\* source can deliver up to MaxFrames
ExtractInputs ==
    { [ source |-> VideoA, task |-> [ f \in {"name", "x", "y", "w", "h"} |-> t[f] ],
        total_frames |-> n, readable |-> r ]
      : t \in Range(SubmitAll(VideoA, 1, 2)), n \in 0..MaxFrames, r \in 0..MaxFrames }

ExtractInit ==
    /\ FlowIdle({ <<>> })
    /\ xin \in ExtractInputs
    /\ xpc = "start"
    /\ frame_num = 0
    /\ cap = [state |-> "none", pos |-> 0, reads |-> 0]
    /\ out = [state |-> "none", frames |-> <<>>]
    /\ result = ""

ExtractSpec == ExtractInit /\ [][ExtractNext]_vars

\* one call on one video of every size up to MaxDim x MaxDim, every positive grid
\* of at most GeomCells cells
GeomArgs ==
    { [ videos_folder |->
          [exists |-> TRUE,
           files |-> { [stem |-> "v", ext |-> "mp4", width |-> d[1], height |-> d[2]] }],
        workers |-> ws, n_parts |-> g[1], m_parts |-> g[2] ]
      : d \in (1..MaxDim) \X (1..MaxDim),
        ws \in { << "w1" >> },
        g \in { g \in GridsUpTo(GeomCells) : g[1] > 0 /\ g[2] > 0 } }

GeomSpec == InitWith({ << a >> : a \in GeomArgs }) /\ [][Next]_vars

\* ================================================================ claims
Distinct(ws) == \A i, j \in DOMAIN ws : ws[i] = ws[j] => i = j
FloorOf(k, w) == k \div w
CeilOf(k, w) == (k + w - 1) \div w

\* the allocation loop of the current video has finished
Allocated == pc \in {"publish", "cleanup"}

\* the parts handed to the allocation, and the parts dealt out
InputParts == [ k \in DOMAIN tasks |-> << tasks[k].name, PartPath(tasks[k].name) >> ]
Dealt == PublishList(order, worker_distribution)

Balanced ==
    \A w \in Range(workers) :
        Len(worker_distribution[w]) \in
            { FloorOf(Len(InputParts), Len(workers)), CeilOf(Len(InputParts), Len(workers)) }

EachPartOnce ==
    /\ Len(Dealt) = Len(InputParts)
    /\ \A k \in DOMAIN InputParts :
          Cardinality({ i \in DOMAIN Dealt : Dealt[i][2] = InputParts[k] }) = 1

\* C1 as stated: for any worker list of length w > 0 and any k parts, after the
\* allocation loop every worker holds floor(k/w) or ceil(k/w) parts and the
\* allocations hold every part exactly once.
FairDistributionAnyList ==
    (Allocated /\ Len(workers) > 0) => (Balanced /\ EachPartOnce)

\* C1 as amended: the same for a list of w > 0 pairwise distinct workers; for any
\* list with w > 0 the allocations hold every part exactly once.
FairDistribution ==
    /\ (Allocated /\ Len(workers) > 0 /\ Distinct(workers)) => Balanced
    /\ (Allocated /\ Len(workers) > 0) => EachPartOnce

\* C1 witness: 3 parts dealt to 2 distinct workers (sizes 2 and 1)
FairDistributionWitness ==
    /\ pc = "publish"
    /\ Len(workers) = 2 /\ Distinct(workers)
    /\ Len(InputParts) = 3
    /\ { Len(worker_distribution[w]) : w \in Range(workers) } = {1, 2}

\* C2: with an empty worker list the allocation step ends in an error state; it
\* neither completes normally nor loops for ever.
EmptyWorkersFail ==
    (pc = "alloc" /\ workers = <<>>) ~> (pc = "error")

\* C3: nothing is allocated or copied for a video while one of its extraction
\* tasks is unresolved, and worker storage is never written while a task runs.
Barrier ==
    /\ [](pc \in {"shuffle", "alloc", "publish", "cleanup"}
            => Resolved(tasks) = DOMAIN tasks)
    /\ [][annotation' # annotation => Resolved(tasks) = DOMAIN tasks]_vars

\* C3 witness: a copy has been made for a video of at least two tasks
BarrierWitness ==
    /\ pc = "publish" /\ pub > 1
    /\ Len(tasks) >= 2

PublishedFrom(o) ==
    \E w \in WorkerNames :
        \E e \in annotation[w].items : \E f \in e.files : f.data = o

\* C4: a task's failure reaches the caller only when every submitted task of the
\* video has finished, and a video with a failed task is never allocated or
\* published.
FailTogether ==
    /\ (pc = "error" /\ error = "ExtractError") => Resolved(tasks) = DOMAIN tasks
    /\ (\E k \in DOMAIN tasks : tasks[k].state = "failed")
          => /\ pc \in {"collect", "drain", "error"}
             /\ ~PublishedFrom(Origin)

\* C4 witness: the failure has been propagated, and a task that was not yet
\* collected when the failure was seen has finished in the meantime
FailTogetherWitness ==
    /\ pc = "error" /\ error = "ExtractError"
    /\ \E k \in DOMAIN tasks : k \notin collected /\ tasks[k].state = "ok"

\* C5: once a call has ended, by success or by the failure of an extraction
\* task, the staging directory does not exist.
StagingTornDown ==
    (pc = "done" \/ (pc = "error" /\ error = "ExtractError")) => ~temp.exists

\* C6: when a copy fails, every other part of the allocation is still copied to
\* its worker and the staging directory is removed afterwards.
BestEffortPublish ==
    (pc = "error" /\ error = "OSError") =>
        /\ \A i \in DOMAIN Dealt :
              i # pub => \E e \in annotation[Dealt[i][1]].items :
                            /\ e.name = Dealt[i][2][1]
                            /\ \E f \in e.files : f.data = Origin
        /\ ~temp.exists

\* C7: after the second of two calls has completed, the directory of every
\* worker of that call holds only part directories made by the second call.
Idempotent ==
    (run = 2 /\ pc = "done") =>
        \A w \in Range(workers) : \A e \in annotation[w].items :
            /\ e.files # {}
            /\ \A f \in e.files : f.data.run = 2

\* C7 witness: the second call has completed, it published to a worker, and
\* its clearing removed from that worker a part directory, with its file, that
\* the second call did not make again
IdempotentWitness ==
    /\ run = 2 /\ pc = "done"
    /\ \E r \in removed :
          /\ r[1] \in Range(workers)
          /\ r[2].files # {}
          /\ annotation[r[1]].items # {}
          /\ \A e \in annotation[r[1]].items : e.name # r[2].name

VideosOf(folder) == { f \in folder.files : IsVideoFile(f) }
PartDirs == UNION { { << w, e.name >> : e \in annotation[w].items } : w \in WorkerNames }

\* C8: after a call that completes without error, with an n x m grid and w > 0
\* workers, every extracted part is under exactly one worker, in a directory
\* named after it that holds exactly one file named after it, and there are
\* n*m part directories per video in all.
PublishedShape ==
    (pc = "done" /\ n_parts > 0 /\ m_parts > 0 /\ Len(workers) > 0) =>
        /\ Cardinality(PartDirs) = n_parts * m_parts * Cardinality(VideosOf(videos_folder))
        /\ \A s \in submitted :
              /\ Cardinality({ d \in PartDirs : d[2] = s.name }) = 1
              /\ \E w \in WorkerNames : \E e \in annotation[w].items :
                    /\ e.name = s.name
                    /\ e.files = { [fname |-> s.name, data |-> [run |-> run, file |-> s.file]] }

\* C9: two different (video file, row, column) triples of one call never get the
\* same part name.
PartNamesUnique ==
    \A a, b \in submitted :
        << a.file, a.row, a.col >> # << b.file, b.row, b.col >> => a.name # b.name

\* the tasks in the state are those of the current video
TasksCurrent ==
    \/ pc \in {"collect", "drain", "shuffle", "alloc", "publish", "cleanup"}
    \/ pc = "error" /\ error \in {"ExtractError", "OSError"}

Pixels(t) == (t.x .. (t.x + t.w - 1)) \X (t.y .. (t.y + t.h - 1))

\* C10: for positive n, m, W, H there are n*m tasks, task i*m+j+1 is cell (i, j)
\* with x = j*(W div m), y = i*(H div n), width W div m, height H div n; every
\* rectangle is inside the frame, no two overlap, and the pixels right of
\* m*(W div m) or below n*(H div n) are in no rectangle.
GridGeometry ==
    (TasksCurrent /\ n_parts > 0 /\ m_parts > 0
       /\ video_file.width > 0 /\ video_file.height > 0) =>
        LET W == video_file.width
            H == video_file.height
            cw == W \div m_parts
            ch == H \div n_parts
        IN  /\ Len(tasks) = n_parts * m_parts
            /\ \A i \in 0..(n_parts - 1) : \A j \in 0..(m_parts - 1) :
                  LET t == tasks[i * m_parts + j + 1]
                  IN  /\ t.name.row = i + 1 /\ t.name.col = j + 1
                      /\ t.x = j * cw /\ t.y = i * ch
                      /\ t.w = cw /\ t.h = ch
            /\ \A k \in DOMAIN tasks : Pixels(tasks[k]) \subseteq (0..(W - 1)) \X (0..(H - 1))
            /\ \A k, l \in DOMAIN tasks : k # l => Pixels(tasks[k]) \cap Pixels(tasks[l]) = {}
            /\ \A px \in (0..(W - 1)) \X (0..(H - 1)) :
                  (px[1] >= m_parts * cw \/ px[2] >= n_parts * ch)
                      => \A k \in DOMAIN tasks : px \notin Pixels(tasks[k])

\* C10 witness: a 3 x 3 frame cut 2 x 2, so a column and a row of pixels remain
GridGeometryWitness ==
    /\ pc = "collect"
    /\ video_file.width = 3 /\ video_file.height = 3
    /\ n_parts = 2 /\ m_parts = 2
    /\ Len(tasks) = 4

\* the pixels of the frame that some rectangle of the current video holds
Covered == UNION { Pixels(tasks[k]) : k \in DOMAIN tasks }
PositiveGeometry ==
    /\ TasksCurrent /\ n_parts > 0 /\ m_parts > 0
    /\ video_file.width > 0 /\ video_file.height > 0

\* C17 as stated: for positive n, m, W, H the rectangles together cover the
\* region of width n*(W div m) and height m*(H div n).
CoverageAsStated ==
    PositiveGeometry =>
        Covered = (0..(n_parts * (video_file.width \div m_parts) - 1))
                      \X (0..(m_parts * (video_file.height \div n_parts) - 1))

\* C17 amended: for positive n (rows), m (columns), W, H the rectangles together
\* cover exactly the region of width m*(W div m) and height n*(H div n) at the
\* top left of the frame.
AggregateCoverage ==
    PositiveGeometry =>
        Covered = (0..(m_parts * (video_file.width \div m_parts) - 1))
                      \X (0..(n_parts * (video_file.height \div n_parts) - 1))

\* C17 witness: a 3 x 2 frame cut into 1 row and 2 columns: the covered region
\* is 2 wide and 2 high, where the stated formula gives 1 wide and 4 high
AggregateCoverageWitness ==
    /\ pc = "collect"
    /\ video_file.width = 3 /\ video_file.height = 2
    /\ n_parts = 1 /\ m_parts = 2
    /\ Cardinality(Covered) = 4

\* C11: with n_parts <= 0 or m_parts <= 0 the call fails: it creates no
\* extraction task and does not complete normally.
InvalidGridFails ==
    (run > 0 /\ (n_parts <= 0 \/ m_parts <= 0)) => (pc # "done" /\ submitted = {})

\* C14: with a missing source folder or an empty worker list the call aborts
\* before any processing: no video is probed, no staging directory is made, no
\* task is submitted, and the call goes no further than its checks.
PreFlight ==
    (run > 0 /\ (~videos_folder.exists \/ workers = <<>>)) =>
        /\ pc \in {"clear", "check", "error"}
        /\ video_file = NoVideo
        /\ ~temp.exists
        /\ submitted = {}

\* the call is at work on a video, between the making of temp_parts and its removal
OnVideo == pc \in {"submit", "collect", "shuffle", "alloc", "publish", "cleanup"}

\* C15: on the success path temp_parts exists from before a video's tasks are
\* submitted until its parts are published, is removed before the next video
\* is taken up, holds no file this call staged for another video while a video
\* is worked on, and does not exist when a call that worked on a video completes.
StagingLifecycle ==
    /\ OnVideo => temp.exists
    /\ OnVideo => \A f \in temp.items :
                     f.data.run = run => f.data.file = << video_file.stem, video_file.ext >>
    /\ (pc = "submit") => \A f \in temp.items : f.data.run # run
    /\ (pc \in {"video", "done"} /\ video_file # NoVideo) => ~temp.exists

\* C15 witness: the tasks of the second of two videos are about to be
\* submitted; temp_parts exists again and is empty, the first video's tasks
\* having been submitted, published and removed
StagingLifecycleWitness ==
    /\ pc = "submit"
    /\ Cardinality(VideosOf(videos_folder)) = 2 /\ video_files = <<>>
    /\ temp = Dir({})
    /\ submitted # {}
    /\ \E w \in WorkerNames : annotation[w].items # {}

\* C20: a call that ends with ValueError for the missing folder leaves every
\* listed worker's directory existing and empty, and no step from the call's
\* start to that end changes the directory of a worker that is not listed.
ClearingPrecedesValidation ==
    /\ [](( pc = "error" /\ error = "ValueError") =>
            \A w \in Range(workers) : annotation[w] = Dir({}))
    /\ [][ (pc' \in {"clear", "check"} \/ (pc' = "error" /\ error' = "ValueError")) =>
              \A w \in WorkerNames \ Range(workers') : annotation'[w] = annotation[w] ]_vars

\* C20 witness: the second call ended with ValueError after its clearing removed
\* a part directory of a listed worker, and a worker that is not listed still
\* has the part directory of the first call
ClearingPrecedesValidationWitness ==
    /\ run = 2 /\ pc = "error" /\ error = "ValueError"
    /\ \E r \in removed : r[1] \in Range(workers) /\ r[2].files # {}
    /\ \E w \in WorkerNames \ Range(workers) : annotation[w].items # {}

ValidCall == videos_folder.exists /\ n_parts > 0 /\ m_parts > 0 /\ workers # <<>>

\* C18: a call on an existing folder with a positive grid and a non-empty
\* worker list ends: it completes unless a task or a copy fails. Every pass of
\* the allocation loop takes min(w, parts left) parts, so k parts take
\* ceil(k/w) passes. The completion message is printed once, at completion
\* and not before, when no video is left, every cell of every video has been
\* submitted and published and temp_parts is gone.
Completion ==
    /\ (pc = "clear" /\ ValidCall) ~>
          (pc = "done" \/ (pc = "error" /\ error \in {"ExtractError", "OSError"}))
    /\ [](printed = (IF pc = "done" THEN 1 ELSE 0))
    /\ []((pc = "done" /\ ValidCall) =>
            /\ video_files = <<>>
            /\ ~temp.exists
            /\ \A f \in VideosOf(videos_folder) :
                  \A i \in 0..(n_parts - 1) : \A j \in 0..(m_parts - 1) :
                      /\ \E t \in submitted :
                            /\ t.file = << f.stem, f.ext >>
                            /\ t.row = i /\ t.col = j
                      /\ \E w \in Range(workers) : \E e \in annotation[w].items :
                            e.name = PartName(SplitExt(f), i, j) /\ e.files # {})
    /\ [][(pc = "alloc" /\ part_videos # <<>> /\ workers # <<>>) =>
             Len(part_videos') =
                 Len(part_videos) - Least(Len(workers), Len(part_videos))]_vars

\* C18 witness: a call over two videos of more parts than there are workers
\* has completed and printed its message
CompletionWitness ==
    /\ pc = "done" /\ ValidCall /\ printed = 1
    /\ Cardinality(VideosOf(videos_folder)) = 2
    /\ n_parts * m_parts > Len(workers)

\* the share of list position p (from 1) when k parts go to w workers
ShareAt(p, k, w) == FloorOf(k, w) + (IF p - 1 < k % w THEN 1 ELSE 0)

\* C19: with w distinct workers the worker at list position p gets
\* floor(k/w) + (1 if p < k mod w) of the k parts of every video, whatever the
\* shuffle, and after a call over V videos of k = n*m parts each it holds V
\* times as many part directories.
PositionBias ==
    /\ (Allocated /\ Len(workers) > 0 /\ Distinct(workers)) =>
          \A p \in DOMAIN workers :
              Len(worker_distribution[workers[p]]) =
                  ShareAt(p, Len(InputParts), Len(workers))
    /\ (pc = "done" /\ n_parts > 0 /\ m_parts > 0
           /\ Len(workers) > 0 /\ Distinct(workers)) =>
          \A p \in DOMAIN workers :
              Cardinality(annotation[workers[p]].items) =
                  Cardinality(VideosOf(videos_folder))
                      * ShareAt(p, n_parts * m_parts, Len(workers))

\* the activation of process_video_part has ended, by return or by exception
TaskEnded == xpc \in {"returned", "raised"}

\* C12: an extraction that wrote no frame does not return a part path: it ends
\* in an error.
EmptyPartFails ==
    (TaskEnded /\ out.frames = <<>>) => xpc = "raised"

\* the first c frames of the source, each cropped to the task's rectangle
FirstCropped(c) ==
    [ k \in 1..c |->
        [ index |-> k - 1,
          cols |-> xin.task.x .. (xin.task.x + xin.task.w - 1),
          rows |-> xin.task.y .. (xin.task.y + xin.task.h - 1) ] ]

\* C13: an extraction that returns, from a source that delivers r > 0 frames,
\* has written the first min(r, total_frames) frames in source order, each
\* cropped to the cell's rectangle, and returns the part's path; with
\* r < total_frames it stopped at the first failed read (r + 1 reads made).
DegradedSuccess ==
    (xpc = "returned" /\ xin.readable > 0) =>
        /\ out.frames = FirstCropped(Least(xin.readable, xin.total_frames))
        /\ result = PartPath(xin.task.name)
        /\ xin.readable < xin.total_frames => cap.reads = xin.readable + 1
        /\ xin.readable >= xin.total_frames => cap.reads = xin.total_frames

\* C13 witness: a source that delivers 2 frames where 3 were asked for; the
\* extraction has returned with 2 frames written
DegradedSuccessWitness ==
    /\ xpc = "returned"
    /\ xin.readable = 2 /\ xin.total_frames = 3
    /\ Len(out.frames) = 2
    /\ xin.task.x > 0

\* C16: when an extraction has ended, by return or by exception, the capture
\* and the writer have been released.
ResourcesReleased ==
    TaskEnded => (cap.state = "released" /\ out.state = "released")

====
